---- MODULE Spec2Model ----
(***************************************************************************)
(* Offline-first cache, mutation queue, connectivity monitor of NuxtAuth.  *)
(*                                                                         *)
(*   composables/useOfflineApi.ts      fetchWithCache, updateWithQueue,    *)
(*                                     processQueuedActions, connectivity  *)
(*   FIX_OFFLINE_PAGE_REFRESH.md       useOfflineStorage (save, get,       *)
(*                                     remove, clear, queueAction,         *)
(*                                     processQueue, hasQueuedActions)     *)
(*                                                                         *)
(* The program is single-threaded and cooperative: every `await` of a      *)
(* storage request or of a network call is a suspension point.  Each       *)
(* action below is the code that runs between two suspension points of one *)
(* call; calls in flight are the entries of `tasks`.                       *)
(***************************************************************************)
EXTENDS Integers, Sequences, FiniteSets, TLC

\* ------------------------------------------------------------------ bounds
MaxTasks == 2          \* calls that may be in flight at the same time
MaxQueue == 2          \* mutations enqueued over a run (ids 1..MaxQueue)
MaxTicks == 2          \* clock steps over a run

\* ------------------------------------------------------- program constants
CacheTtl == 86400      \* seconds, the ttl of every accessor save
\* one clock step in ms: an entry is exactly ttl old after one step and
\* expired after two
TickMs == CacheTtl * 1000

Tasks == 1..MaxTasks

Urls == {"/api/public/profile"}
NoKey == "undefined"
CacheKeyArgs == {"user-profile"}
Keys == {"user-profile"}

\* payloads handed to updateWithQueue; Circular stands for an object that
\* JSON.stringify rejects
Circular == "circular"
\* "Bu" is the object B with one more property whose value is undefined
Payloads == {"A", "Bu", Circular}
ServerInit == "S"

\* outcome of one storage request against IndexedDB / localStorage
\*   ok      the request succeeds
\*   throw   initDB rejects or a synchronous call throws (lands in `catch`)
\*   reqerr  the IDBRequest fires onerror (the returned promise rejects)
\*   fail2   save only: IndexedDB throws and localStorage.setItem throws too
IO == {"ok", "throw", "reqerr", "fail2"}

Null == [user |-> "null", success |-> FALSE, message |-> "null"]

\* ------------------------------------------------------------ credentials
\* useOfflineAuth: the keys of the cached identity and of the cached token
AuthCacheKey == "auth_user_data"
AuthTokenKey == "auth_token_cache"
Users == {"u1", "u2"}
\* the role the server gives each user; u2 has no organizationId
NoRole == "undefined"
RoleOf(u) == IF u = "u1" THEN "employee" ELSE "organization_admin"
Identity(u) == [email |-> u, role |-> RoleOf(u)]

\* A segment of a token: whether atob() accepts it, what JSON.parse makes
\* of the decoded text, and the exp claim (NoExp: the object has none).
NoExp == -1
Exps == {i * CacheTtl : i \in 0..MaxTicks}
Segment(b64, json, exp) == [b64 |-> b64, json |-> json, exp |-> exp]
Header == Segment(TRUE, "object", NoExp)
Claims(exp) == Segment(TRUE, "object", exp)
PayloadSegments ==
    {Segment(FALSE, "invalid", NoExp), Segment(TRUE, "invalid", NoExp),
     Segment(TRUE, "null", NoExp), Claims(NoExp)}
        \cup {Claims(e) : e \in Exps}
\* the value of the auth_token cookie: absent, or the segments that
\* token.split('.') yields
NoToken == [present |-> FALSE, parts |-> << >>]
Jwt(payload) == [present |-> TRUE, parts |-> <<Header, payload, Header>>]
Tokens ==
    {NoToken, [present |-> TRUE, parts |-> <<Header, Claims(NoExp)>>]}
        \cup {Jwt(s) : s \in PayloadSegments}
\* the token of the session of user u: its signature is its own
Signature(u) == [b64 |-> TRUE, json |-> "invalid", exp |-> NoExp, sub |-> u]
SessionToken(u) ==
    [present |-> TRUE, parts |-> <<Header, Claims(CacheTtl), Signature(u)>>]
\* the tokens handed to cacheUserData with user u
CachedTokens(u) == {NoToken, SessionToken(u)}

VARIABLES
    onlineState,     \* const onlineState = ref(true)
    navOnLine,       \* navigator.onLine
    idbSupported,    \* 'indexedDB' in window
    idbCache,        \* IndexedDB object store 'cache'  (key -> entry)
    lsCache,         \* localStorage                    (key -> entry)
    queue,           \* IndexedDB object store 'queue', in key (id) order
    nextId,          \* autoIncrement key generator of the 'queue' store
    server,          \* the profile held by the remote API
    now,             \* Date.now()
    tasks,           \* calls in flight
    synced,          \* ids whose replay the remote API has acknowledged
    notified         \* parity of the times onlineState triggered its dependents

vars == <<onlineState, navOnLine, idbSupported, idbCache, lsCache, queue,
          nextId, server, now, tasks, synced, notified>>

\* --------------------------------------------------------------- helpers
Idle == [kind |-> "idle", pc |-> "idle", url |-> "none", key |-> "none",
         data |-> "none", plain |-> "none", snap |-> <<>>, idx |-> 0,
         on |-> FALSE, ret |-> "none", success |-> FALSE, queued |-> FALSE,
         err |-> "none", val |-> Null, failed |-> 0, acks |-> 0, qid |-> 0,
         enq |-> "none", seq |-> 0, stale |-> FALSE, timed |-> FALSE,
         token |-> NoToken, tokenOk |-> FALSE, method |-> "none",
         path |-> "none", storeUser |-> Null, loggedIn |-> FALSE,
         loading |-> FALSE, fetched |-> FALSE, got |-> FALSE,
         cached |-> FALSE]

FreeSlots == {t \in Tasks : tasks[t].kind = "idle"}
\* a settled call hands its result to its caller in the same turn of the
\* event loop (a microtask): nothing else runs while a result is pending
NoneDone == \A t \in Tasks : tasks[t].pc # "done"
\* a checkConnectivity() that read navigator.onLine = false has its answer
\* ready: only code of the same turn (a call made by the page right after
\* useOfflineApi()) runs before its continuation; events, timers and
\* request completions come later
Turn ==
    /\ NoneDone
    /\ \A t \in Tasks : tasks[t].kind = "probe" => tasks[t].on
\* a new call takes the lowest free slot
NewSlot == CHOOSE t \in FreeSlots : \A u \in FreeSlots : t <= u

SeqRemove(s, id) == SelectSeq(s, LAMBDA r : r.id # id)
Ids(s) == {s[i].id : i \in 1..Len(s)}

\* ------------------------------------------------- JSON.parse(JSON.stringify(x))
\* the portable form of a payload; Circular makes JSON.stringify throw
Serializable(d) == d # Circular
PlainData(d) == IF d = "Bu" THEN "B" ELSE d

\* ------------------------------------------------------------ cache values
\* the optimistic cache value written by updateWithQueue
PendingValue(plain, msg) == [user |-> plain, success |-> TRUE, message |-> msg]
\* server/api/public/profile.ts
GetResponse(profile) == [user |-> profile, success |-> TRUE, message |-> "none"]
PutResponse(body) == [user |-> body, success |-> TRUE, message |-> "updated"]

CacheEntry(value, ttl) == [value |-> value, timestamp |-> now, ttl |-> ttl]
Put(store, key, entry) ==
    [k \in DOMAIN store \cup {key} |-> IF k = key THEN entry ELSE store[k]]
Del(store, key) == [k \in DOMAIN store \ {key} |-> store[k]]

\* if (result.ttl) { age = (Date.now() - result.timestamp) / 1000; age > ttl }
Expired(entry) ==
    /\ entry.ttl # 0
    /\ (now - entry.timestamp) > entry.ttl * 1000

\* ------------------------------------------------------ useOfflineStorage
\* save(key, value, {ttl}): the stores afterwards and what the call yields
\* ("true", "false", or "reject" when the put request fires onerror)
save(key, value, ttl, io) ==
    IF ~idbSupported
    THEN IF io = "ok"
         THEN [idb |-> idbCache, ls |-> Put(lsCache, key, CacheEntry(value, ttl)),
               ret |-> "true"]
         ELSE [idb |-> idbCache, ls |-> lsCache, ret |-> "false"]
    ELSE CASE io = "ok" ->
                [idb |-> Put(idbCache, key, CacheEntry(value, ttl)),
                 ls |-> lsCache, ret |-> "true"]
           [] io = "throw" ->
                [idb |-> idbCache,
                 ls |-> Put(lsCache, key, CacheEntry(value, ttl)), ret |-> "true"]
           [] io = "fail2" ->
                [idb |-> idbCache, ls |-> lsCache, ret |-> "false"]
           [] OTHER ->
                [idb |-> idbCache, ls |-> lsCache, ret |-> "reject"]

\* get(key): the value (Null for null), the stores afterwards (an expired
\* IndexedDB entry is removed), and whether the call rejects
get(key, io) ==
    IF ~idbSupported
    THEN [idb |-> idbCache, ret |-> "value",
          val |-> IF key \in DOMAIN lsCache THEN lsCache[key].value ELSE Null]
    ELSE CASE io = "ok" ->
                IF key \notin DOMAIN idbCache
                THEN [idb |-> idbCache, ret |-> "value", val |-> Null]
                ELSE IF Expired(idbCache[key])
                THEN [idb |-> Del(idbCache, key), ret |-> "value", val |-> Null]
                ELSE [idb |-> idbCache, ret |-> "value",
                      val |-> idbCache[key].value]
           [] io = "reqerr" ->
                [idb |-> idbCache, ret |-> "reject", val |-> Null]
           [] OTHER ->
                [idb |-> idbCache, ret |-> "value", val |-> Null]

\* the record queueAction stores: JSON round trip of {...action, timestamp}
QueueRecord(url, plain, key) ==
    [id |-> nextId, url |-> url, data |-> plain,
     options |-> [method |-> "PUT", body |-> plain],
     cacheKey |-> key, timestamp |-> now]

\* queueAction(action)
queueAction(url, plain, key, io) ==
    IF ~idbSupported
    THEN [queue |-> queue, nextId |-> nextId, ret |-> "false"]
    ELSE CASE io = "ok" ->
                [queue |-> Append(queue, QueueRecord(url, plain, key)),
                 nextId |-> nextId + 1, ret |-> "true"]
           [] io = "reqerr" ->
                [queue |-> queue, nextId |-> nextId, ret |-> "reject"]
           [] OTHER ->
                [queue |-> queue, nextId |-> nextId, ret |-> "false"]

\* hasQueuedActions()
hasQueuedActions == idbSupported /\ Len(queue) > 0

AfterReplayKeeps(q, id, ok, delOk) == q

AfterReplayDeletesAlways(q, id, ok, delOk) ==
    IF delOk THEN SeqRemove(q, id) ELSE q

\* processQueue, the loop body after `await processor(action)` settled:
\* the queue store once the delete request (if any) has run
AfterReplay(q, id, ok, delOk) ==
    IF ok /\ delOk THEN SeqRemove(q, id) ELSE q

\* processQueue, the loop: `for (const action of actions)` goes on to the
\* next entry whether the processor resolved or threw
NextIndex(i, ok) == i + 1

getAllUnacknowledged(q) == SelectSeq(q, LAMBDA r : r.id \notin synced)

\* processQueue: store.getAll() on the 'queue' store
getAll(q) == q

\* ------------------------------------------------------------------- Init
\* a checkConnectivity() call whose answer is pending; `on` is what it read
\* from navigator.onLine (false: the answer will be false)
Probe(iface) == [Idle EXCEPT !.kind = "probe", !.pc = "probing", !.on = iface]

\* The state once useOfflineApi() has run for the first time: onlineState is
\* still ref(true), the listeners are installed and the `then` of the
\* initial checkConnectivity() has not run yet.
InitialCheck == [Probe(navOnLine) EXCEPT !.timed = TRUE]

Init ==
    /\ navOnLine \in BOOLEAN
    /\ onlineState = TRUE
    /\ idbSupported \in BOOLEAN
    /\ idbCache = << >>
    /\ lsCache = << >>
    /\ queue = << >>
    /\ nextId = 1
    /\ server = ServerInit
    /\ now = 0
    /\ tasks = [t \in Tasks |-> IF t = 1 THEN InitialCheck ELSE Idle]
    /\ synced = {}
    /\ notified = 0

Finish(t, rec) == tasks' = [tasks EXCEPT ![t] = rec]

\* ------------------------------------------------------ connectivity monitor
\* updateOnlineStatus, after checkConnectivity answered
updateOnlineStatusLatched(isConnected) == onlineState /\ isConnected

updateOnlineStatus(isConnected) ==
    IF onlineState # isConnected THEN isConnected ELSE onlineState

TriggerAlways(old, new) == 1

\* onlineState is a ref read through computed(() => onlineState.value): an
\* assignment triggers the dependents when it changes the value
Trigger(old, new) == IF new # old THEN 1 ELSE 0
\* onlineState.value = new
Assign(new) ==
    /\ onlineState' = new
    /\ notified' = (notified + Trigger(onlineState, new)) % 2

OfflineEventDebounced ==
    /\ Turn
    /\ navOnLine
    /\ navOnLine' = FALSE
    /\ UNCHANGED <<onlineState, notified, idbSupported, idbCache, lsCache,
                   queue, nextId, server, now, tasks, synced>>

\* window 'offline' event
OfflineEvent ==
    /\ Turn
    /\ navOnLine
    /\ navOnLine' = FALSE
    /\ Assign(FALSE)
    /\ UNCHANGED <<idbSupported, idbCache, lsCache, queue, nextId, server, now,
                   tasks, synced>>

\* the checkConnectivity() calls in flight; `seq` orders them by their start
Probes == {t \in Tasks : tasks[t].kind = "probe"}
\* when the call in slot t answers: it leaves, and the calls started before
\* it are marked as overtaken (`stale`)
Overtake(t) ==
    [u \in Tasks |->
        IF u = t THEN Idle
        ELSE IF u \notin Probes THEN tasks[u]
        ELSE IF tasks[u].seq > tasks[t].seq
        THEN [tasks[u] EXCEPT !.seq = tasks[u].seq - 1]
        ELSE [tasks[u] EXCEPT !.stale = TRUE]]

\* updateOnlineStatus() is called: checkConnectivity answers false at once
\* when navigator.onLine is false, else the HEAD /api/health is in flight;
\* `timed` marks the calls made by the interval timer and at startup
StartProbe(iface, timed) ==
    IF iface
    THEN /\ FreeSlots # {}
         /\ tasks' = [tasks EXCEPT ![NewSlot] =
                         [Probe(TRUE) EXCEPT !.seq = Cardinality(Probes),
                                             !.timed = timed]]
         /\ UNCHANGED <<onlineState, notified>>
    ELSE /\ Assign(updateOnlineStatus(FALSE))
         /\ UNCHANGED tasks

OnlineEventTrusting ==
    /\ Turn
    /\ ~navOnLine
    /\ navOnLine' = TRUE
    /\ Assign(TRUE)
    /\ UNCHANGED <<idbSupported, idbCache, lsCache, queue, nextId, server, now,
                   tasks, synced>>

\* window 'online' event
OnlineEvent ==
    /\ Turn
    /\ ~navOnLine
    /\ navOnLine' = TRUE
    /\ StartProbe(TRUE, FALSE)
    /\ UNCHANGED <<idbSupported, idbCache, lsCache, queue, nextId, server, now,
                   synced>>

\* setInterval(updateOnlineStatus, 10000): the health request of the
\* previous timed check was aborted after 3000 ms at the latest
PeriodicCheck ==
    /\ Turn
    /\ \A t \in Probes : ~tasks[t].timed
    /\ StartProbe(navOnLine, TRUE)
    /\ UNCHANGED <<navOnLine, idbSupported, idbCache, lsCache, queue, nextId,
                   server, now, synced>>

\* checkConnectivity answers: the health request settles (response, network
\* error or 3 s abort), or navigator.onLine was false. The continuation
\* does not read navigator.onLine again: a response received just before
\* the interface went down, or from a server reachable without it, is
\* delivered after the 'offline' event.
ProbeSettles(t, isConnected) ==
    /\ NoneDone
    /\ tasks[t].kind = "probe" /\ tasks[t].pc = "probing"
    /\ isConnected => tasks[t].on
    /\ Assign(updateOnlineStatus(isConnected))
    /\ tasks' = Overtake(t)
    /\ UNCHANGED <<navOnLine, idbSupported, idbCache, lsCache, queue, nextId,
                   server, now, synced>>

\* --------------------------------------------------------- updateWithQueue
\* key = cacheKey || url
KeyOf(url, cacheKey) == IF cacheKey = NoKey THEN url ELSE cacheKey

\* updates in flight that may still enqueue
PendingUpdates ==
    Cardinality({t \in Tasks : tasks[t].kind = "update"
                                /\ tasks[t].pc \in {"net", "saveResponse",
                                                    "enqueue"}})

Thrown(task, err) == [task EXCEPT !.pc = "done", !.ret = "threw", !.err = err]

ToEnqueueUnchecked(task) ==
    [task EXCEPT !.pc = "enqueue", !.plain = PlainData(task.data)]

\* JSON.parse(JSON.stringify(data)) and the call of storage.queueAction
ToEnqueue(task) ==
    IF Serializable(task.data)
    THEN [task EXCEPT !.pc = "enqueue", !.plain = PlainData(task.data)]
    ELSE Thrown(task, "serialize")

\* updateWithQueue(url, data, options, cacheKey) up to its first await
UpdateCall(url, cacheKey, data) ==
    /\ NoneDone
    /\ FreeSlots # {}
    /\ nextId + PendingUpdates <= MaxQueue
    /\ LET task == [Idle EXCEPT !.kind = "update", !.url = url,
                                !.key = KeyOf(url, cacheKey), !.data = data,
                                !.on = onlineState]
       IN  tasks' = [tasks EXCEPT ![NewSlot] =
                        IF ~onlineState THEN ToEnqueue(task)
                        ELSE [task EXCEPT !.pc = "net"]]
    /\ UNCHANGED <<onlineState, navOnLine, idbSupported, idbCache, lsCache,
                   queue, nextId, server, now, synced, notified>>

\* $fetch(url, requestOptions) settles; a body that cannot be serialised never
\* leaves the client, and no request succeeds while the interface is down
UpdateNet(t, ok) ==
    /\ Turn
    /\ tasks[t].kind = "update" /\ tasks[t].pc = "net"
    /\ ok => (Serializable(tasks[t].data) /\ navOnLine)
    /\ IF ok
       THEN /\ server' = PlainData(tasks[t].data)
            /\ Finish(t, [tasks[t] EXCEPT !.pc = "saveResponse",
                             !.val = PutResponse(PlainData(tasks[t].data))])
       ELSE /\ server' = server
            /\ Finish(t, ToEnqueue(tasks[t]))
    /\ UNCHANGED <<onlineState, navOnLine, idbSupported, idbCache, lsCache,
                   queue, nextId, now, synced, notified>>

\* await storage.save(key, response, { ttl: 86400 }); return { success: true }
\* (inside the try: a rejected save lands in the catch, which queues the
\* mutation for retry)
UpdateSaveResponse(t, io) ==
    /\ Turn
    /\ tasks[t].kind = "update" /\ tasks[t].pc = "saveResponse"
    /\ LET r == save(tasks[t].key, tasks[t].val, CacheTtl, io)
       IN  /\ idbCache' = r.idb
           /\ lsCache' = r.ls
           /\ Finish(t, IF r.ret = "reject" THEN ToEnqueue(tasks[t])
                        ELSE [tasks[t] EXCEPT !.pc = "done", !.ret = "returned",
                                              !.success = TRUE, !.queued = FALSE])
    /\ UNCHANGED <<onlineState, navOnLine, idbSupported, queue, nextId, server,
                   now, synced, notified>>

\* await storage.queueAction({ url, data: plainData, options, cacheKey })
UpdateEnqueue(t, io) ==
    /\ Turn
    /\ tasks[t].kind = "update" /\ tasks[t].pc = "enqueue"
    /\ LET r == queueAction(tasks[t].url, tasks[t].plain, tasks[t].key, io)
       IN  /\ queue' = r.queue
           /\ nextId' = r.nextId
           /\ Finish(t, IF r.ret = "reject" THEN Thrown(tasks[t], "storage")
                        ELSE [tasks[t] EXCEPT !.pc = "save", !.enq = r.ret,
                                 !.qid = IF r.ret = "true" THEN nextId ELSE 0])
    /\ UNCHANGED <<onlineState, navOnLine, idbSupported, idbCache, lsCache,
                   server, now, synced, notified>>

QueuedResultAsOffline(task) ==
    [task EXCEPT !.pc = "done", !.ret = "returned",
                 !.success = TRUE, !.queued = TRUE]

\* what updateWithQueue returns after the optimistic save
QueuedResult(task) ==
    [task EXCEPT !.pc = "done", !.ret = "returned",
                 !.success = ~task.on, !.queued = TRUE]

\* await storage.save(key, { user: plainData, success: true, message }, ttl)
UpdateSave(t, io) ==
    /\ Turn
    /\ tasks[t].kind = "update" /\ tasks[t].pc = "save"
    /\ LET msg == IF tasks[t].on THEN "retry" ELSE "offline"
           r == save(tasks[t].key, PendingValue(tasks[t].plain, msg), CacheTtl, io)
       IN  /\ idbCache' = r.idb
           /\ lsCache' = r.ls
           /\ Finish(t, IF r.ret = "reject" THEN Thrown(tasks[t], "storage")
                        ELSE QueuedResult(tasks[t]))
    /\ UNCHANGED <<onlineState, navOnLine, idbSupported, queue, nextId, server,
                   now, synced, notified>>

\* ---------------------------------------------------------- fetchWithCache
\* fetchWithCache(url, options, cacheKey) up to its first await
FetchCall(url, cacheKey) ==
    /\ NoneDone
    /\ FreeSlots # {}
    /\ tasks' = [tasks EXCEPT ![NewSlot] =
                    [Idle EXCEPT !.kind = "fetch", !.url = url,
                                 !.key = KeyOf(url, cacheKey), !.on = onlineState,
                                 !.pc = IF onlineState THEN "net" ELSE "cacheGet"]]
    /\ UNCHANGED <<onlineState, navOnLine, idbSupported, idbCache, lsCache,
                   queue, nextId, server, now, synced, notified>>

\* `if (cached) return cached`, else throw `otherwise`
ServeCached(task, r, otherwise) ==
    IF r.ret = "reject" THEN Thrown(task, "storage")
    ELSE IF r.val # Null
    THEN [task EXCEPT !.pc = "done", !.ret = "returned", !.val = r.val]
    ELSE Thrown(task, otherwise)

\* offline: const cached = await storage.get(key)
FetchCacheGet(t, io) ==
    /\ Turn
    /\ tasks[t].kind = "fetch" /\ tasks[t].pc = "cacheGet"
    /\ LET r == get(tasks[t].key, io)
       IN  /\ idbCache' = r.idb
           /\ Finish(t, ServeCached(tasks[t], r, "offline-no-cache"))
    /\ UNCHANGED <<onlineState, navOnLine, idbSupported, lsCache, queue, nextId,
                   server, now, synced, notified>>

\* online: const data = await $fetch(url, options)
FetchNet(t, ok) ==
    /\ Turn
    /\ tasks[t].kind = "fetch" /\ tasks[t].pc = "net"
    /\ ok => navOnLine
    /\ Finish(t, IF ok
                 THEN [tasks[t] EXCEPT !.pc = "saveResponse",
                                       !.val = GetResponse(server)]
                 ELSE [tasks[t] EXCEPT !.pc = "fallbackGet", !.err = "network"])
    /\ UNCHANGED <<onlineState, navOnLine, idbSupported, idbCache, lsCache,
                   queue, nextId, server, now, synced, notified>>

\* await storage.save(key, data, { ttl: 86400 }); return data
\* (inside the try: a rejected save lands in the catch)
FetchSaveResponse(t, io) ==
    /\ Turn
    /\ tasks[t].kind = "fetch" /\ tasks[t].pc = "saveResponse"
    /\ LET r == save(tasks[t].key, tasks[t].val, CacheTtl, io)
       IN  /\ idbCache' = r.idb
           /\ lsCache' = r.ls
           /\ Finish(t, IF r.ret = "reject"
                        THEN [tasks[t] EXCEPT !.pc = "fallbackGet",
                                              !.err = "storage", !.val = Null]
                        ELSE [tasks[t] EXCEPT !.pc = "done", !.ret = "returned"])
    /\ UNCHANGED <<onlineState, navOnLine, idbSupported, queue, nextId, server,
                   now, synced, notified>>

\* catch: const cached = await storage.get(key); else throw error
FetchFallbackGet(t, io) ==
    /\ Turn
    /\ tasks[t].kind = "fetch" /\ tasks[t].pc = "fallbackGet"
    /\ LET r == get(tasks[t].key, io)
       IN  /\ idbCache' = r.idb
           /\ Finish(t, ServeCached(tasks[t], r, tasks[t].err))
    /\ UNCHANGED <<onlineState, navOnLine, idbSupported, lsCache, queue, nextId,
                   server, now, synced, notified>>

\* ---------------------------------------- processQueuedActions / processQueue
\* processQueuedActions() is called (the page's "Sync Now")
DrainCall ==
    /\ NoneDone
    /\ FreeSlots # {}
    /\ tasks' = [tasks EXCEPT ![NewSlot] =
                    [Idle EXCEPT !.kind = "drain", !.pc = "getAll",
                                 !.on = onlineState]]
    /\ UNCHANGED <<onlineState, navOnLine, idbSupported, idbCache, lsCache,
                   queue, nextId, server, now, synced, notified>>

Returned(task) == [task EXCEPT !.pc = "done", !.ret = "returned"]

\* initDB and store.getAll() settle; the first processor call is made
\* (`qid` keeps the key the store will give to the next entry)
DrainGetAll(t, io) ==
    /\ Turn
    /\ tasks[t].kind = "drain" /\ tasks[t].pc = "getAll"
    /\ Finish(t, IF ~idbSupported \/ io \in {"throw", "fail2"}
                 THEN Returned(tasks[t])
                 ELSE IF io = "reqerr" THEN Thrown(tasks[t], "storage")
                 ELSE IF getAll(queue) = << >>
                 THEN Returned(tasks[t])
                 ELSE [tasks[t] EXCEPT !.pc = "replay", !.snap = getAll(queue),
                                       !.idx = 1, !.qid = nextId])
    /\ UNCHANGED <<onlineState, navOnLine, idbSupported, idbCache, lsCache,
                   queue, nextId, server, now, synced, notified>>

\* the processor's $fetch(action.url, action.options) settles; on success
\* the entry is deleted (the delete request itself may fail, unobserved)
DrainReplay(t, ok, delOk) ==
    /\ Turn
    /\ tasks[t].kind = "drain" /\ tasks[t].pc = "replay"
    /\ ok => navOnLine
    /\ ~ok => delOk
    /\ LET task == tasks[t]
           action == task.snap[task.idx]
           next == NextIndex(task.idx, ok)
           after == [task EXCEPT !.idx = next,
                        !.acks = IF ok THEN task.acks + 1 ELSE task.acks,
                        !.failed = IF ~ok /\ task.failed = 0 THEN task.idx
                                   ELSE task.failed]
       IN  /\ server' = IF ok THEN action.options.body ELSE server
           /\ synced' = IF ok THEN synced \cup {action.id} ELSE synced
           /\ queue' = AfterReplay(queue, action.id, ok, delOk)
           /\ Finish(t, IF next > Len(task.snap) THEN Returned(after) ELSE after)
    /\ UNCHANGED <<onlineState, navOnLine, idbSupported, idbCache, lsCache,
                   nextId, now, notified>>

\* ------------------------------------------------- other storage callers
\* storage.remove(key)
remove(key, io) ==
    IF ~idbSupported
    THEN [idb |-> idbCache, ls |-> Del(lsCache, key)]
    ELSE IF io = "ok"
    THEN [idb |-> Del(idbCache, key), ls |-> lsCache]
    ELSE [idb |-> idbCache, ls |-> lsCache]

\* storage.clear()
clear(io) ==
    IF ~idbSupported
    THEN [idb |-> idbCache, ls |-> << >>]
    ELSE IF io = "ok"
    THEN [idb |-> << >>, ls |-> lsCache]
    ELSE [idb |-> idbCache, ls |-> lsCache]

RemoveCall(key, io) ==
    /\ Turn
    /\ idbCache' = remove(key, io).idb
    /\ lsCache' = remove(key, io).ls
    /\ UNCHANGED <<onlineState, navOnLine, idbSupported, queue, nextId, server,
                   now, tasks, synced, notified>>

ClearCall(io) ==
    /\ Turn
    /\ idbCache' = clear(io).idb
    /\ lsCache' = clear(io).ls
    /\ UNCHANGED <<onlineState, navOnLine, idbSupported, queue, nextId, server,
                   now, tasks, synced, notified>>

\* ---------------------------------------------------------- useOfflineAuth
TruthyUnlessZero(exp) == exp # 0

\* if (payload.exp): 0 and a missing claim are both falsy
Truthy(exp) == exp # NoExp /\ exp # 0

\* verifyTokenOffline(token): split, atob, JSON.parse, payload.exp; every
\* throw (atob, JSON.parse, the property read on null) lands in the catch
verifyTokenOffline(token) ==
    IF Len(token.parts) # 3 THEN FALSE
    ELSE LET payload == token.parts[2]
         IN  IF ~payload.b64 \/ payload.json # "object" THEN FALSE
             ELSE IF Truthy(payload.exp)
             THEN ~(now >= payload.exp * 1000)
             ELSE TRUE

\* getCachedUserData(): storage.get(AUTH_CACHE_KEY); a rejection is caught
\* and null returned
getCachedUserData(io) ==
    LET r == get(AuthCacheKey, io)
    IN  [idb |-> r.idb, val |-> IF r.ret = "reject" THEN Null ELSE r.val]

AuthResult(task, user, method) ==
    [task EXCEPT !.pc = "done", !.ret = "returned", !.val = user,
                 !.success = (method # "none"), !.method = method]

\* isAuthenticatedOffline() up to its first await
AuthCall(token) ==
    /\ Turn
    /\ FreeSlots # {}
    /\ LET ok == token.present /\ verifyTokenOffline(token)
       IN  tasks' = [tasks EXCEPT ![NewSlot] =
                [Idle EXCEPT !.kind = "auth", !.token = token, !.tokenOk = ok,
                             !.pc = IF ok THEN "getFirst" ELSE "getFallback"]]
    /\ UNCHANGED <<onlineState, navOnLine, idbSupported, idbCache, lsCache,
                   queue, nextId, server, now, synced, notified>>

\* the getCachedUserData() of the valid-token branch answers
AuthGetFirst(t, io) ==
    /\ Turn
    /\ tasks[t].kind = "auth" /\ tasks[t].pc = "getFirst"
    /\ LET r == getCachedUserData(io)
       IN  /\ idbCache' = r.idb
           /\ Finish(t, IF r.val # Null
                        THEN AuthResult(tasks[t], r.val, "token")
                        ELSE [tasks[t] EXCEPT !.pc = "getFallback"])
    /\ UNCHANGED <<onlineState, navOnLine, idbSupported, lsCache, queue,
                   nextId, server, now, synced, notified>>

\* the getCachedUserData() of the fallback answers
AuthGetFallback(t, io) ==
    /\ Turn
    /\ tasks[t].kind = "auth" /\ tasks[t].pc = "getFallback"
    /\ LET r == getCachedUserData(io)
       IN  /\ idbCache' = r.idb
           /\ Finish(t, IF r.val # Null
                        THEN AuthResult(tasks[t], r.val, "cache")
                        ELSE AuthResult(tasks[t], Null, "none"))
    /\ UNCHANGED <<onlineState, navOnLine, idbSupported, lsCache, queue,
                   nextId, server, now, synced, notified>>

\* cacheUserData(user, token) up to its first await
CacheUserCall(u, token) ==
    /\ Turn
    /\ FreeSlots # {}
    /\ tasks' = [tasks EXCEPT ![NewSlot] =
            [Idle EXCEPT !.kind = "cacheUser", !.pc = "saveUser",
                         !.val = Identity(u), !.token = token]]
    /\ UNCHANGED <<onlineState, navOnLine, idbSupported, idbCache, lsCache,
                   queue, nextId, server, now, synced, notified>>

\* storage.save(AUTH_CACHE_KEY, user) settles
CacheUserSave(t, io) ==
    /\ Turn
    /\ tasks[t].kind = "cacheUser" /\ tasks[t].pc = "saveUser"
    /\ LET r == save(AuthCacheKey, tasks[t].val, 0, io)
       IN  /\ idbCache' = r.idb
           /\ lsCache' = r.ls
           /\ Finish(t, IF r.ret = "reject"
                        THEN [tasks[t] EXCEPT !.pc = "done", !.ret = "false"]
                        ELSE IF tasks[t].token.present
                        THEN [tasks[t] EXCEPT !.pc = "saveToken"]
                        ELSE [tasks[t] EXCEPT !.pc = "done", !.ret = "true"])
    /\ UNCHANGED <<onlineState, navOnLine, idbSupported, queue, nextId,
                   server, now, synced, notified>>

\* storage.save(AUTH_TOKEN_KEY, token) settles
CacheTokenSave(t, io) ==
    /\ Turn
    /\ tasks[t].kind = "cacheUser" /\ tasks[t].pc = "saveToken"
    /\ LET r == save(AuthTokenKey, tasks[t].token, 0, io)
       IN  /\ idbCache' = r.idb
           /\ lsCache' = r.ls
           /\ Finish(t, [tasks[t] EXCEPT !.pc = "done",
                            !.ret = IF r.ret = "reject" THEN "false"
                                    ELSE "true"])
    /\ UNCHANGED <<onlineState, navOnLine, idbSupported, queue, nextId,
                   server, now, synced, notified>>

\* clearAuthCache(): the two removes; a rejected remove skips the rest
ClearAuthCall ==
    /\ Turn
    /\ FreeSlots # {}
    /\ tasks' = [tasks EXCEPT ![NewSlot] =
            [Idle EXCEPT !.kind = "clearAuth", !.pc = "removeUser"]]
    /\ UNCHANGED <<onlineState, navOnLine, idbSupported, idbCache, lsCache,
                   queue, nextId, server, now, synced, notified>>

ClearAuthRemove(t, io) ==
    /\ Turn
    /\ tasks[t].kind = "clearAuth"
    /\ tasks[t].pc \in {"removeUser", "removeToken"}
    /\ LET key == IF tasks[t].pc = "removeUser" THEN AuthCacheKey
                  ELSE AuthTokenKey
       IN  /\ idbCache' = remove(key, io).idb
           /\ lsCache' = remove(key, io).ls
    /\ Finish(t, IF idbSupported /\ io = "reqerr"
                 THEN [tasks[t] EXCEPT !.pc = "done", !.ret = "false"]
                 ELSE IF tasks[t].pc = "removeUser"
                 THEN [tasks[t] EXCEPT !.pc = "removeToken"]
                 ELSE [tasks[t] EXCEPT !.pc = "done", !.ret = "true"])
    /\ UNCHANGED <<onlineState, navOnLine, idbSupported, queue, nextId,
                   server, now, synced, notified>>

\* ------------------------------------------------- middleware/auth-guard
\* The pages a navigation goes to, with the meta they declare.
PublicPages == {"/login"}
Paths == {"/login", "/profile", "/dashboard", "/org/dashboard", "/superadmin"}
IsPublic(path) == path \in PublicPages
RequiredRole(path) ==
    IF path = "/org/dashboard" THEN "organization_admin" ELSE NoRole
\* meta.roles; the empty set stands for a page that declares none
AllowedRoles(path) == IF path = "/superadmin" THEN {"super_admin"} ELSE {}

\* the auth store when the navigation starts
StoreStates ==
    {[user |-> Null, loggedIn |-> FALSE, loading |-> FALSE],
     [user |-> Null, loggedIn |-> FALSE, loading |-> TRUE]}
        \cup {[user |-> Identity(u), loggedIn |-> TRUE, loading |-> FALSE] :
                u \in Users}

\* redirectToAppropriateArea(userRole)
redirectToAppropriateArea(role) ==
    CASE role = "super_admin" -> "/superadmin"
      [] role = "platform_admin" -> "/platform"
      [] role \in {"organization_admin", "manager"} -> "/org/dashboard"
      [] role \in {"employee", "guest"} -> "/user"
      [] OTHER -> "/login"

Allowed(task) == [task EXCEPT !.pc = "done", !.ret = "allowed"]
Redirect(task, to) == [task EXCEPT !.pc = "done", !.ret = to]
\* authStore.user = cachedUser; authStore.loggedIn = true; return
Admit(task, user) ==
    [task EXCEPT !.pc = "done", !.ret = "allowed", !.storeUser = user,
                 !.loggedIn = TRUE, !.cached = TRUE]

\* the guard from the public-page test to the role authorisation
Decide(task) ==
    LET role == IF task.storeUser = Null THEN NoRole ELSE task.storeUser.role
        path == task.path
    IN  IF ~task.loggedIn
        THEN IF IsPublic(path) THEN Allowed(task)
             ELSE Redirect(task, "/login?reason=not_authenticated")
        ELSE IF path = "/dashboard"
        THEN CASE role \in {"employee", "guest"} -> Allowed(task)
               [] role = "super_admin" -> Redirect(task, "/superadmin")
               [] role = "platform_admin" -> Redirect(task, "/platform")
               [] role \in {"organization_admin", "manager"} ->
                      Redirect(task, "/org/dashboard")
               [] OTHER -> Redirect(task, "/login?reason=invalid_role")
        ELSE IF AllowedRoles(path) = {} /\ RequiredRole(path) = NoRole
        THEN Allowed(task)
        ELSE IF role = NoRole THEN Redirect(task, "/login")
        ELSE IF RequiredRole(path) # NoRole /\ role # RequiredRole(path)
        THEN Redirect(task, redirectToAppropriateArea(role))
        ELSE IF AllowedRoles(path) # {} /\ role \notin AllowedRoles(path)
        THEN Redirect(task, redirectToAppropriateArea(role))
        ELSE IF role = "organization_admin" /\ path = "/org/dashboard"
        THEN [task EXCEPT !.pc = "verifyAdmin"]
        ELSE Allowed(task)

\* the try block: fetchUser runs when the store has no user and is not
\* loading
OnlineFlow(task) ==
    IF task.storeUser = Null /\ ~task.loading
    THEN [task EXCEPT !.pc = "fetchUser", !.fetched = TRUE]
    ELSE Decide(task)

\* The client-side guard up to its first await. Without a session cookie it
\* awaits isAuthenticatedOffline(), whose token is the same absent cookie;
\* with a cookie it reads online.value and, when offline, awaits
\* getCachedUserData(); when online it goes on to authStore.fetchUser().
GuardCall(cookie, path, store) ==
    /\ Turn
    /\ FreeSlots # {}
    /\ LET task == [Idle EXCEPT !.kind = "guard", !.token = cookie,
                                !.on = onlineState, !.path = path,
                                !.storeUser = store.user,
                                !.loggedIn = store.loggedIn,
                                !.loading = store.loading]
       IN  tasks' = [tasks EXCEPT ![NewSlot] =
                IF ~cookie.present
                THEN [task EXCEPT !.pc = "offlineAuth"]
                ELSE IF ~onlineState
                THEN [task EXCEPT !.pc = "cachedUser"]
                ELSE OnlineFlow(task)]
    /\ UNCHANGED <<onlineState, navOnLine, idbSupported, idbCache, lsCache,
                   queue, nextId, server, now, synced, notified>>

GuardOfflineAuthKeepsStore(t, io) ==
    /\ Turn
    /\ tasks[t].kind = "guard" /\ tasks[t].pc = "offlineAuth"
    /\ LET r == getCachedUserData(io)
       IN  /\ idbCache' = r.idb
           /\ Finish(t, IF r.val # Null
                        THEN Allowed(AuthResult(tasks[t], r.val, "cache"))
                        ELSE Redirect(AuthResult(tasks[t], Null, "none"),
                                      "/login?reason=missing_cookie"))
    /\ UNCHANGED <<onlineState, navOnLine, idbSupported, lsCache, queue,
                   nextId, server, now, synced, notified>>

\* isAuthenticatedOffline() answers the guard: access, or /login
GuardOfflineAuth(t, io) ==
    /\ Turn
    /\ tasks[t].kind = "guard" /\ tasks[t].pc = "offlineAuth"
    /\ LET r == getCachedUserData(io)
       IN  /\ idbCache' = r.idb
           /\ Finish(t, IF r.val # Null
                        THEN Admit(AuthResult(tasks[t], r.val, "cache"), r.val)
                        ELSE Redirect(AuthResult(tasks[t], Null, "none"),
                                      "/login?reason=missing_cookie"))
    /\ UNCHANGED <<onlineState, navOnLine, idbSupported, lsCache, queue,
                   nextId, server, now, synced, notified>>

\* getCachedUserData() answers the guard that found a cookie while offline:
\* access, or on to the online flow
GuardCachedUser(t, io) ==
    /\ Turn
    /\ tasks[t].kind = "guard" /\ tasks[t].pc = "cachedUser"
    /\ LET r == getCachedUserData(io)
       IN  /\ idbCache' = r.idb
           /\ Finish(t, IF r.val # Null THEN Admit(tasks[t], r.val)
                        ELSE OnlineFlow(tasks[t]))
    /\ UNCHANGED <<onlineState, navOnLine, idbSupported, lsCache, queue,
                   nextId, server, now, synced, notified>>

\* the request of authStore.fetchUser() settles: the store holds the user
\* the server names ("user") and goes on to cache it, holds none ("none"),
\* or the call throws ("throw")
GuardFetchUser(t, outcome, u) ==
    /\ Turn
    /\ tasks[t].kind = "guard" /\ tasks[t].pc = "fetchUser"
    /\ outcome = "user" => navOnLine
    /\ Finish(t, CASE outcome = "throw" -> [tasks[t] EXCEPT !.pc = "fallback"]
                   [] outcome = "none" -> Decide(tasks[t])
                   [] OTHER -> [tasks[t] EXCEPT !.storeUser = Identity(u),
                                                !.loggedIn = TRUE,
                                                !.got = TRUE,
                                                !.pc = "fetchCache"])
    /\ UNCHANGED <<onlineState, navOnLine, idbSupported, idbCache, lsCache,
                   queue, nextId, server, now, synced, notified>>

\* after fetchUser() the guard reads online.value: cacheUserData, or on to
\* the checks
AfterFetch(task) ==
    IF onlineState THEN [task EXCEPT !.pc = "saveUser"] ELSE Decide(task)

\* fetchUser() caches the user data it fetched and resolves
FetchUserCaches(t, io) ==
    /\ Turn
    /\ tasks[t].kind = "guard" /\ tasks[t].pc = "fetchCache"
    /\ LET r == save(AuthCacheKey, tasks[t].storeUser, 0, io)
       IN  /\ idbCache' = r.idb
           /\ lsCache' = r.ls
    /\ Finish(t, AfterFetch(tasks[t]))
    /\ UNCHANGED <<onlineState, navOnLine, idbSupported, queue, nextId,
                   server, now, synced, notified>>

\* cacheUserData(authStore.user, sessionCookie): the save of the user
GuardSaveUser(t, io) ==
    /\ Turn
    /\ tasks[t].kind = "guard" /\ tasks[t].pc = "saveUser"
    /\ LET r == save(AuthCacheKey, tasks[t].storeUser, 0, io)
       IN  /\ idbCache' = r.idb
           /\ lsCache' = r.ls
           /\ Finish(t, IF r.ret = "reject" THEN Decide(tasks[t])
                        ELSE [tasks[t] EXCEPT !.pc = "saveToken"])
    /\ UNCHANGED <<onlineState, navOnLine, idbSupported, queue, nextId,
                   server, now, synced, notified>>

\* cacheUserData(authStore.user, sessionCookie): the save of the token
GuardSaveToken(t, io) ==
    /\ Turn
    /\ tasks[t].kind = "guard" /\ tasks[t].pc = "saveToken"
    /\ LET r == save(AuthTokenKey, tasks[t].token, 0, io)
       IN  /\ idbCache' = r.idb
           /\ lsCache' = r.ls
    /\ Finish(t, Decide(tasks[t]))
    /\ UNCHANGED <<onlineState, navOnLine, idbSupported, queue, nextId,
                   server, now, synced, notified>>

GuardFallbackGivesUp(t, io) ==
    /\ Turn
    /\ tasks[t].kind = "guard" /\ tasks[t].pc = "fallback"
    /\ idbCache' = getCachedUserData(io).idb
    /\ Finish(t, Redirect(tasks[t], "/login?reason=fetch_user_failed"))
    /\ UNCHANGED <<onlineState, navOnLine, idbSupported, lsCache, queue,
                   nextId, server, now, synced, notified>>

\* the catch: fetchUser threw, getCachedUserData() answers
GuardFallback(t, io) ==
    /\ Turn
    /\ tasks[t].kind = "guard" /\ tasks[t].pc = "fallback"
    /\ LET r == getCachedUserData(io)
       IN  /\ idbCache' = r.idb
           /\ Finish(t, IF r.val # Null THEN Admit(tasks[t], r.val)
                        ELSE Redirect(tasks[t],
                                      "/login?reason=fetch_user_failed"))
    /\ UNCHANGED <<onlineState, navOnLine, idbSupported, lsCache, queue,
                   nextId, server, now, synced, notified>>

\* apiGet('/api/org/users/verify-admin') settles
GuardVerifyAdmin(t, ok) ==
    /\ Turn
    /\ tasks[t].kind = "guard" /\ tasks[t].pc = "verifyAdmin"
    /\ ok => navOnLine
    /\ Finish(t, IF ok THEN Allowed(tasks[t])
                 ELSE Redirect(tasks[t], "error 403"))
    /\ UNCHANGED <<onlineState, navOnLine, idbSupported, idbCache, lsCache,
                   queue, nextId, server, now, synced, notified>>

\* --------------------------------------------------------- environment
\* the caller takes the result of a settled call
Settle(t) ==
    /\ tasks[t].pc = "done"
    /\ Finish(t, Idle)
    /\ UNCHANGED <<onlineState, navOnLine, idbSupported, idbCache, lsCache,
                   queue, nextId, server, now, synced, notified>>

\* the clock moves on by one step while no call is in flight
Tick ==
    /\ FreeSlots = Tasks
    /\ now < MaxTicks * TickMs
    /\ now' = now + TickMs
    /\ UNCHANGED <<onlineState, navOnLine, idbSupported, idbCache, lsCache,
                   queue, nextId, server, tasks, synced, notified>>

\* ------------------------------------------------------- specifications
\* Each specification is the program under one workload: the calls the page
\* makes and the outcomes the platform may give them.

\* storage outcomes of the cache store in the queue workload
CacheIO == {"ok"}

\* Queue workload: offline and online writes, drains, connectivity changes,
\* cache removal and clearing; every outcome of the queue store.
NextSync ==
    \/ OfflineEvent
    \/ OnlineEvent
    \/ PeriodicCheck
    \/ \E t \in Tasks, c \in BOOLEAN : ProbeSettles(t, c)
    \/ \E u \in Urls, ck \in CacheKeyArgs, d \in Payloads : UpdateCall(u, ck, d)
    \/ \E t \in Tasks, ok \in BOOLEAN : UpdateNet(t, ok)
    \/ \E t \in Tasks, io \in CacheIO : UpdateSaveResponse(t, io)
    \/ \E t \in Tasks, io \in IO : UpdateEnqueue(t, io)
    \/ \E t \in Tasks, io \in CacheIO : UpdateSave(t, io)
    \/ DrainCall
    \/ \E t \in Tasks, io \in IO : DrainGetAll(t, io)
    \/ \E t \in Tasks, ok \in BOOLEAN, delOk \in BOOLEAN : DrainReplay(t, ok, delOk)
    \/ \E k \in Keys, io \in CacheIO : RemoveCall(k, io)
    \/ \E io \in CacheIO : ClearCall(io)
    \/ \E t \in Tasks : Settle(t)

SpecSync == Init /\ [][NextSync]_vars

\* storage outcomes of a read in the cache workload
ReadIO == {"ok", "reqerr"}

\* Cache workload: reads through the accessor while the clock runs and the
\* interface goes up and down, cache removal and clearing; every outcome of
\* a save on either substrate.
NextCache ==
    \/ OfflineEvent
    \/ OnlineEvent
    \/ \E t \in Tasks, c \in BOOLEAN : ProbeSettles(t, c)
    \/ \E u \in Urls, ck \in CacheKeyArgs : FetchCall(u, ck)
    \/ \E t \in Tasks, io \in ReadIO : FetchCacheGet(t, io)
    \/ \E t \in Tasks, ok \in BOOLEAN : FetchNet(t, ok)
    \/ \E t \in Tasks, io \in IO : FetchSaveResponse(t, io)
    \/ \E t \in Tasks, io \in ReadIO : FetchFallbackGet(t, io)
    \/ \E k \in Keys, io \in IO : RemoveCall(k, io)
    \/ \E io \in IO : ClearCall(io)
    \/ \E t \in Tasks : Settle(t)
    \/ Tick

SpecCache == Init /\ [][NextCache]_vars

\* Write workload: writes through the accessor while connectivity changes;
\* every outcome of every storage request on either substrate.
NextWrite ==
    \/ OfflineEvent
    \/ OnlineEvent
    \/ PeriodicCheck
    \/ \E t \in Tasks, c \in BOOLEAN : ProbeSettles(t, c)
    \/ \E u \in Urls, ck \in CacheKeyArgs, d \in Payloads : UpdateCall(u, ck, d)
    \/ \E t \in Tasks, ok \in BOOLEAN : UpdateNet(t, ok)
    \/ \E t \in Tasks, io \in IO : UpdateSaveResponse(t, io)
    \/ \E t \in Tasks, io \in IO : UpdateEnqueue(t, io)
    \/ \E t \in Tasks, io \in IO : UpdateSave(t, io)
    \/ \E t \in Tasks : Settle(t)

\* Connectivity workload: interface events, the periodic check and the
\* probes' answers, while the clock runs.
NextConn ==
    \/ OfflineEvent
    \/ OnlineEvent
    \/ PeriodicCheck
    \/ \E t \in Tasks, c \in BOOLEAN : ProbeSettles(t, c)
    \/ Tick

SpecConn == Init /\ [][NextConn]_vars

SpecWrite == Init /\ [][NextWrite]_vars

\* Authentication workload: the identity is cached and cleared and pages
\* ask isAuthenticatedOffline() with any cookie, while connectivity changes
\* and the clock runs.
NextAuth ==
    \/ OfflineEvent
    \/ OnlineEvent
    \/ \E t \in Tasks, c \in BOOLEAN : ProbeSettles(t, c)
    \/ \E u \in Users : \E tok \in CachedTokens(u) : CacheUserCall(u, tok)
    \/ \E t \in Tasks, io \in ReadIO : CacheUserSave(t, io)
    \/ \E t \in Tasks, io \in ReadIO : CacheTokenSave(t, io)
    \/ ClearAuthCall
    \/ \E t \in Tasks, io \in ReadIO : ClearAuthRemove(t, io)
    \/ \E tok \in Tokens : AuthCall(tok)
    \/ \E t \in Tasks, io \in ReadIO : AuthGetFirst(t, io)
    \/ \E t \in Tasks, io \in ReadIO : AuthGetFallback(t, io)
    \/ \E t \in Tasks : Settle(t)
    \/ Tick

SpecAuth == Init /\ [][NextAuth]_vars

\* Navigation workload: the guard runs with any cookie, page and auth
\* store, one navigation at a time, while connectivity changes, the clock
\* runs and the identity is cleared on sign-out.
GuardCookies == {NoToken, Jwt(Claims(NoExp)), Jwt(Claims(CacheTtl))}
FetchOutcomes == {"user", "none", "throw"}
Navigating == \E t \in Tasks : tasks[t].kind = "guard"

NextGuard ==
    \/ OfflineEvent
    \/ OnlineEvent
    \/ \E t \in Tasks, c \in BOOLEAN : ProbeSettles(t, c)
    \/ \E c \in GuardCookies, p \in Paths, s \in StoreStates :
            ~Navigating /\ GuardCall(c, p, s)
    \/ \E t \in Tasks, io \in ReadIO : GuardOfflineAuth(t, io)
    \/ \E t \in Tasks, io \in ReadIO : GuardCachedUser(t, io)
    \/ \E t \in Tasks, o \in FetchOutcomes, u \in Users :
            GuardFetchUser(t, o, u)
    \/ \E t \in Tasks, io \in ReadIO : FetchUserCaches(t, io)
    \/ \E t \in Tasks, io \in ReadIO : GuardSaveUser(t, io)
    \/ \E t \in Tasks, io \in ReadIO : GuardSaveToken(t, io)
    \/ \E t \in Tasks, io \in ReadIO : GuardFallback(t, io)
    \/ \E t \in Tasks, ok \in BOOLEAN : GuardVerifyAdmin(t, ok)
    \/ ClearAuthCall
    \/ \E t \in Tasks, io \in ReadIO : ClearAuthRemove(t, io)
    \/ \E t \in Tasks : Settle(t)
    \/ Tick

SpecGuard == Init /\ [][NextGuard]_vars

\* Edit workload: writes, reads and drains through the accessor while
\* connectivity changes; every storage request succeeds.
NextEdit ==
    \/ OfflineEvent
    \/ OnlineEvent
    \/ \E t \in Tasks, c \in BOOLEAN : ProbeSettles(t, c)
    \/ \E u \in Urls, ck \in CacheKeyArgs, d \in Payloads : UpdateCall(u, ck, d)
    \/ \E t \in Tasks, ok \in BOOLEAN : UpdateNet(t, ok)
    \/ \E t \in Tasks, io \in CacheIO : UpdateSaveResponse(t, io)
    \/ \E t \in Tasks, io \in CacheIO : UpdateEnqueue(t, io)
    \/ \E t \in Tasks, io \in CacheIO : UpdateSave(t, io)
    \/ \E u \in Urls, ck \in CacheKeyArgs : FetchCall(u, ck)
    \/ \E t \in Tasks, io \in CacheIO : FetchCacheGet(t, io)
    \/ \E t \in Tasks, ok \in BOOLEAN : FetchNet(t, ok)
    \/ \E t \in Tasks, io \in CacheIO : FetchSaveResponse(t, io)
    \/ \E t \in Tasks, io \in CacheIO : FetchFallbackGet(t, io)
    \/ DrainCall
    \/ \E t \in Tasks, io \in CacheIO : DrainGetAll(t, io)
    \/ \E t \in Tasks, ok \in BOOLEAN : DrainReplay(t, ok, TRUE)
    \/ \E t \in Tasks : Settle(t)

SpecEdit == Init /\ [][NextEdit]_vars


\* ================================================================ claims
Range(q) == {q[i] : i \in 1..Len(q)}
IsDrain(t) == tasks[t].kind = "drain"
Replaying(t) == IsDrain(t) /\ tasks[t].pc = "replay"
DoneUpdate(t) ==
    tasks[t].kind = "update" /\ tasks[t].pc = "done" /\ tasks[t].ret = "returned"
\* the substrate get() reads
Served == IF idbSupported THEN idbCache ELSE lsCache
CachedFresh(key) == key \in DOMAIN Served /\ ~Expired(Served[key])

\* C1: a drain replays the queue in enqueue order and halts at the first
\* failure: while the replay of an entry is in flight, every entry for the
\* same resource that precedes it in the drain's snapshot has been replayed
\* successfully.
C1_ReplayHaltsAtFirstFailure ==
    \A t \in Tasks :
        Replaying(t) =>
            \A i \in 1..(tasks[t].idx - 1) :
                tasks[t].snap[i].url = tasks[t].snap[tasks[t].idx].url
                    => tasks[t].snap[i].id \in synced

\* C2: when a drain in which a replay failed finishes, the failed entry and
\* every entry after it in the snapshot are still in the queue, in order.
C2_FailedEntryAndLaterStay ==
    \A t \in Tasks :
        (IsDrain(t) /\ tasks[t].pc = "done" /\ tasks[t].failed # 0) =>
            LET rest == SubSeq(tasks[t].snap, tasks[t].failed, Len(tasks[t].snap))
            IN  SelectSeq(queue, LAMBDA r : r \in Range(rest)) = rest

\* C3: in every step, an entry that is in the queue before and not after
\* (removed or altered) has had a replay acknowledged by the remote API, and
\* the entries that stay keep their order.
C3_DequeueOnlyAfterReplay ==
    [][/\ \A r \in Range(queue) : r \notin Range(queue') => r.id \in synced'
       /\ SelectSeq(queue', LAMBDA r : r \in Range(queue))
            = SelectSeq(queue, LAMBDA r : r \in Range(queue'))]_vars

\* a drain has had one replay fail, whose entry is still queued, and another
\* succeed, whose entry is gone
C3_Witness ==
    \E t \in Tasks :
        /\ IsDrain(t) /\ tasks[t].failed # 0
        /\ tasks[t].snap[tasks[t].failed] \in Range(queue)
        /\ tasks[t].snap[tasks[t].failed].id \notin synced
        /\ \E i \in 1..Len(tasks[t].snap) :
               tasks[t].snap[i].id \in synced /\ tasks[t].snap[i] \notin Range(queue)

\* C4: every step that takes the connectivity state from Offline to Online
\* starts a drain.
C4_DrainStartsWhenOnlineAgain ==
    [][(~onlineState /\ onlineState') =>
          \E t \in Tasks : tasks[t].kind # "drain" /\ tasks'[t].kind = "drain"]_vars

\* C5: draining is not re-entrant: at most one drain has a replay in flight.
C5_OneDrainReplaysAtATime ==
    Cardinality({t \in Tasks : Replaying(t)}) <= 1

\* C6: an entry whose replay the remote API acknowledged but which is still
\* in the queue (its delete did not take effect) stays there until a later
\* replay of it succeeds; every drain's snapshot holds the whole queue, such
\* entries included, and a drain replays its snapshot entry by entry to the
\* end.
C6_AtLeastOnce ==
    [][/\ \A r \in Range(queue) :
              (r.id \in synced /\ r \notin Range(queue')) =>
                  \E t \in Tasks : /\ Replaying(t)
                                   /\ tasks[t].snap[tasks[t].idx].id = r.id
                                   /\ tasks'[t].acks = tasks[t].acks + 1
       /\ \A t \in Tasks :
              (IsDrain(t) /\ tasks[t].pc = "getAll" /\ tasks'[t].snap # << >>)
                  => tasks'[t].snap = queue
       /\ \A t \in Tasks :
              (Replaying(t) /\ tasks'[t] # tasks[t]) =>
                  /\ tasks'[t].idx = tasks[t].idx + 1
                  /\ tasks'[t].pc = IF tasks[t].idx < Len(tasks[t].snap)
                                    THEN "replay" ELSE "done"]_vars

\* a drain has the replay of an already acknowledged entry in flight
C6_Witness ==
    \E t \in Tasks :
        /\ Replaying(t)
        /\ tasks[t].snap[tasks[t].idx].id \in synced
        /\ tasks[t].snap[tasks[t].idx] \in Range(queue)

\* C7: a fetchWithCache that read Offline never goes to the network; it
\* returns the cached value when one is present and unexpired and otherwise
\* fails with the offline-and-no-cached-data condition (a rejected storage
\* request aside), never with a network error.
C7_OfflineReadServesFreshCacheOnly ==
    \A t \in Tasks :
        (tasks[t].kind = "fetch" /\ ~tasks[t].on) =>
            /\ tasks[t].pc \in {"cacheGet", "done"}
            /\ tasks[t].pc = "done" =>
                 /\ tasks[t].err # "network"
                 /\ tasks[t].ret = "returned" =>
                        /\ CachedFresh(tasks[t].key)
                        /\ tasks[t].val = Served[tasks[t].key].value
                 /\ (tasks[t].ret = "threw" /\ tasks[t].err # "storage") =>
                        /\ tasks[t].err = "offline-no-cache"
                        /\ ~CachedFresh(tasks[t].key)

\* the queue holds the record of the mutation of update t, or its replay
\* has been acknowledged
Enqueued(t) ==
    /\ tasks[t].enq = "true"
    /\ \/ tasks[t].qid \in synced
       \/ \E r \in Range(queue) :
              /\ r.id = tasks[t].qid
              /\ r.url = tasks[t].url
              /\ r.data = PlainData(tasks[t].data)
              /\ r.options = [method |-> "PUT", body |-> PlainData(tasks[t].data)]
              /\ r.cacheKey = tasks[t].key

\* C8: an updateWithQueue that read Offline and returns has appended its
\* mutation to the queue, has overwritten the cache entry at the key with
\* the pending representation of the payload, and returns success=true with
\* queued=true.
C8_OfflineWriteIsQueued ==
    \A t \in Tasks :
        (DoneUpdate(t) /\ ~tasks[t].on) =>
            /\ tasks[t].success /\ tasks[t].queued
            /\ Enqueued(t)
            /\ tasks[t].key \in DOMAIN Served
            /\ Served[tasks[t].key].value
                 = PendingValue(PlainData(tasks[t].data), "offline")

C10_QueuedImpliesHasQueuedActions ==
    \A t \in Tasks :
        (DoneUpdate(t) /\ tasks[t].queued) =>
            hasQueuedActions \/ (tasks[t].qid # 0 /\ tasks[t].qid \in synced)

\* the remote call of update t succeeded (it holds the server's response)
RemoteOk(t) == tasks[t].kind = "update" /\ tasks[t].val # Null
\* some substrate holds value v at key
Holds(key, v) ==
    \/ key \in DOMAIN idbCache /\ idbCache[key].value = v
    \/ key \in DOMAIN lsCache /\ lsCache[key].value = v

\* C12: an updateWithQueue that read Online and whose remote call succeeded
\* returns success without queued, has added no entry to the queue, and the
\* cache entry at its key holds the server's response.
C12_OnlineWriteCachesResponse ==
    \A t \in Tasks :
        (tasks[t].kind = "update" /\ tasks[t].pc = "done" /\ RemoteOk(t)) =>
            /\ tasks[t].ret = "returned"
            /\ tasks[t].success /\ ~tasks[t].queued
            /\ tasks[t].enq = "none" /\ tasks[t].qid = 0
            /\ Holds(tasks[t].key, PutResponse(PlainData(tasks[t].data)))

\* C13: when the remote call of a fetchWithCache that read Online has
\* succeeded, the step that follows (the save of the response) ends the call:
\* it returns the remote result, and the cache entry at the key holds that
\* result with a ttl of 86400 s.
C13_OnlineReadCachesResult ==
    [][\A t \in Tasks :
          (/\ tasks[t].kind = "fetch" /\ tasks[t].pc = "saveResponse"
           /\ tasks'[t] # tasks[t]) =>
              /\ tasks'[t].pc = "done" /\ tasks'[t].ret = "returned"
              /\ tasks'[t].val = tasks[t].val
              /\ \/ /\ tasks[t].key \in DOMAIN idbCache'
                    /\ idbCache'[tasks[t].key].value = tasks[t].val
                    /\ idbCache'[tasks[t].key].ttl = 86400
                 \/ /\ tasks[t].key \in DOMAIN lsCache'
                    /\ lsCache'[tasks[t].key].value = tasks[t].val
                    /\ lsCache'[tasks[t].key].ttl = 86400]_vars

\* C14: when the remote call of a fetchWithCache that read Online has failed,
\* the step that follows (the read of the cache) ends the call: it returns
\* the cached value when one is present and unexpired and otherwise throws
\* the remote failure (a rejected storage request aside); the queue and the
\* cache are left as they were, the eviction of an expired entry aside.
C14_FailedReadFallsBackToFreshCache ==
    [][\A t \in Tasks :
          (/\ tasks[t].kind = "fetch" /\ tasks[t].pc = "fallbackGet"
           /\ tasks[t].err = "network"
           /\ tasks'[t] # tasks[t]) =>
              /\ tasks'[t].pc = "done"
              /\ tasks'[t].ret = "returned" =>
                     /\ CachedFresh(tasks[t].key)
                     /\ tasks'[t].val = Served[tasks[t].key].value
              /\ (tasks'[t].ret = "threw" /\ tasks'[t].err # "storage") =>
                     /\ tasks'[t].err = "network"
                     /\ ~CachedFresh(tasks[t].key)
              /\ queue' = queue
              /\ lsCache' = lsCache
              /\ \/ idbCache' = idbCache
                 \/ /\ tasks[t].key \in DOMAIN idbCache
                    /\ Expired(idbCache[tasks[t].key])
                    /\ idbCache' = Del(idbCache, tasks[t].key)]_vars

\* C15: updateWithQueue never throws or rejects for a serialisable payload,
\* whatever the connectivity state, the remote outcome and the storage
\* outcomes.
C15_WriteAlwaysSucceedsLocally ==
    \A t \in Tasks :
        (/\ tasks[t].kind = "update" /\ tasks[t].pc = "done"
         /\ Serializable(tasks[t].data)) => tasks[t].ret = "returned"

\* C16: every step of an updateWithQueue whose payload cannot be serialised
\* leaves the queue, both cache substrates and the remote profile as they
\* were; the call never reaches a storage request and ends by throwing the
\* serialisation error.
C16_UnserialisablePayloadStoresNothing ==
    [][\A t \in Tasks :
          (/\ tasks'[t].kind = "update" /\ tasks'[t].data = Circular
           /\ tasks'[t] # tasks[t]) =>
              /\ queue' = queue /\ nextId' = nextId
              /\ idbCache' = idbCache /\ lsCache' = lsCache
              /\ server' = server
              /\ tasks'[t].pc \in {"net", "done"}
              /\ tasks'[t].pc = "done" =>
                     /\ tasks'[t].ret = "threw"
                     /\ tasks'[t].err = "serialize"]_vars

\* an online and an offline write of an unserialisable payload have thrown
\* while the queue holds an earlier mutation
C16_Witness ==
    /\ queue # << >>
    /\ \E t \in Tasks :
           /\ tasks[t].kind = "update" /\ tasks[t].data = Circular
           /\ tasks[t].pc = "done" /\ tasks[t].ret = "threw"
           /\ tasks[t].on

\* C17: for every entry with a ttl on the substrate that get reads, get
\* yields null when the entry's age exceeds the ttl and the stored value
\* otherwise.
C17_GetHonoursTtl ==
    \A k \in DOMAIN Served :
        Served[k].ttl # 0 =>
            get(k, "ok").val = IF Expired(Served[k]) THEN Null
                               ELSE Served[k].value

\* C18: a get whose request succeeds removes the entry it reads when that
\* entry is expired, and leaves it as it is when it is not.
C18_GetEvictsExpiredOnly ==
    [][\A t \in Tasks :
          (FetchCacheGet(t, "ok") \/ FetchFallbackGet(t, "ok")) =>
              LET k == tasks[t].key
                  after == IF idbSupported THEN idbCache' ELSE lsCache'
              IN  k \in DOMAIN Served =>
                      IF Expired(Served[k]) THEN k \notin DOMAIN after
                      ELSE k \in DOMAIN after /\ after[k] = Served[k]]_vars

\* C19: when a save has returned true, a get of the same key right after it
\* yields the saved value, whichever substrate took the save.
C19_ReadYourWrites ==
    [][\A t \in Tasks, io \in IO :
          (/\ FetchSaveResponse(t, io)
           /\ save(tasks[t].key, tasks[t].val, CacheTtl, io).ret = "true") =>
              (get(tasks[t].key, "ok").val)' = tasks[t].val]_vars

\* the queued mutations of cache key k that have been accepted (their
\* updateWithQueue has written the cache) and not yet replayed
PendingEdits(k) ==
    {r \in Range(queue) :
        /\ r.cacheKey = k
        /\ r.id \notin synced
        /\ \A t \in Tasks : (tasks[t].kind = "update" /\ tasks[t].qid = r.id)
                                 => tasks[t].pc = "done"}
LastEdit(k) == CHOOSE r \in PendingEdits(k) : \A s \in PendingEdits(k) : s.id <= r.id

\* C11: a fetchWithCache of key K that ends while an accepted write to K is
\* still unreplayed returns the pending value of the latest such write.
C11_ReadsSeePendingEdit ==
    \A t \in Tasks :
        (/\ tasks[t].kind = "fetch" /\ tasks[t].pc = "done"
         /\ PendingEdits(tasks[t].key) # {}) =>
            /\ tasks[t].ret = "returned"
            /\ tasks[t].val.user = LastEdit(tasks[t].key).data

Current(t) == tasks[t].snap[tasks[t].idx]
\* the replay of the drain in slot t settles in this step
ReplaySettles(t) == Replaying(t) /\ tasks'[t] # tasks[t]

\* C21: after a queued mutation is synced successfully (its replay is
\* acknowledged by the remote API), the cache entry at the mutation's cache
\* key holds the server's response.
C21_SyncedEntryCachesResponse ==
    [][\A t \in Tasks : \A a \in Range(tasks[t].snap) :
          (ReplaySettles(t) /\ synced' # synced /\ a = Current(t)
                /\ a.cacheKey # NoKey)
          => (Holds(a.cacheKey, PutResponse(a.options.body)))']_vars

\* C22: when the connectivity state has become Offline while a drain that
\* started Online is in progress, the replay in flight settles and the
\* drain starts no replay of a further queue entry.
C22_OfflineAbortsDrain ==
    [][\A t \in Tasks :
          (ReplaySettles(t) /\ tasks[t].on /\ ~onlineState)
          => tasks'[t].pc # "replay"]_vars

\* a checkConnectivity() call whose health request is in flight
Probing(t) == t \in Probes /\ tasks[t].on
\* a health request is sent in this step
ProbeStarts == \E t \in Tasks : tasks[t] = Idle /\ tasks'[t].kind = "probe"

\* C23: the 'offline' event sets the state to Offline in the same step,
\* whatever the state was, and starts or awaits no probe.
C23_OfflineEventSetsOffline ==
    [][(navOnLine /\ ~navOnLine') => (~onlineState' /\ tasks' = tasks)]_vars

\* the interface went down while a health request is still in flight
C23_Witness == ~navOnLine /\ ~onlineState /\ \E t \in Tasks : Probing(t)

C25_CheckSetsOutcome ==
    [][/\ \A t \in Tasks, c \in BOOLEAN :
            ProbeSettles(t, c) => onlineState' = c
       /\ PeriodicCheck
            => IF navOnLine THEN ProbeStarts /\ onlineState' = onlineState
                            ELSE ~onlineState']_vars

\* the interface is up, every health request has answered and the state
\* reads Offline: the outcome of a failed check
C25_Witness == ~onlineState /\ navOnLine /\ Probes = {}

\* C26: the dependents of the state are triggered once for each change of
\* the state and never by an assignment that confirms it: the number of
\* triggers is even exactly when the state is the initial Online.
C26_NotifiedOncePerChange == notified = IF onlineState THEN 0 ELSE 1

\* a probe started later has answered and the state reads Online with an
\* even number of triggers
C26_Witness ==
    onlineState /\ notified = 0 /\ \E t \in Probes : tasks[t].stale

\* C27: the answer of a probe that was started before a probe that has
\* already answered does not overwrite the state.
C27_StaleProbeDoesNotOverwrite ==
    [][\A t \in Tasks, c \in BOOLEAN :
          (ProbeSettles(t, c) /\ tasks[t].stale)
          => onlineState' = onlineState]_vars

\* a finished isAuthenticatedOffline() / a finished guard
AuthDone(t) == tasks[t].kind = "auth" /\ tasks[t].pc = "done"
GuardDone(t) == tasks[t].kind = "guard" /\ tasks[t].pc = "done"
\* the claims segment of a three-segment token decodes to an object
ClaimsDecode(token) ==
    /\ Len(token.parts) = 3
    /\ token.parts[2].b64 /\ token.parts[2].json = "object"
\* the exp claim (seconds) is at or before the current time (milliseconds)
ExpReached(token) ==
    /\ token.parts[2].exp # NoExp
    /\ token.parts[2].exp * 1000 <= now
\* a credential that is present, well formed and not expired
CredentialValid(token) ==
    token.present /\ ClaimsDecode(token) /\ ~ExpReached(token)
\* the identity the cache holds
CachedIdentity == getCachedUserData("ok").val

\* C28: a finished isAuthenticatedOffline() reports method=token when the
\* credential is valid and an identity is cached, method=cache when the
\* credential is absent, malformed or expired and an identity is cached,
\* and authenticated=false, method=none when no identity is cached; the
\* user of an authenticated result is the cached identity.
C28_AuthPrecedence ==
    \A t \in Tasks :
        AuthDone(t) =>
            IF CachedIdentity = Null
            THEN ~tasks[t].success /\ tasks[t].method = "none"
            ELSE /\ tasks[t].success
                 /\ tasks[t].val = CachedIdentity
                 /\ tasks[t].method = IF CredentialValid(tasks[t].token)
                                      THEN "token" ELSE "cache"

\* C29: verifyTokenOffline answers false for a credential that has not
\* three segments, whose claims do not decode, or whose exp is at or
\* before the current time.
C29_InvalidCredentialRejected ==
    \A t \in Tasks :
        (tasks[t].kind = "auth" /\ tasks[t].token.present
            /\ ~CredentialValid(tasks[t].token))
        => ~tasks[t].tokenOk

\* C30: while the state is Offline the guard grants access to a page that
\* is not public, on the cached identity, only to a request whose cookie
\* holds a valid credential.
C30_OfflineAccessNeedsValidToken ==
    \A t \in Tasks :
        (GuardDone(t) /\ tasks[t].ret = "allowed" /\ tasks[t].cached
            /\ ~onlineState /\ ~IsPublic(tasks[t].path))
        => CredentialValid(tasks[t].token)

\* the answer of the startup check, made with the interface down, is due
StartupPending == \E t \in Probes : ~tasks[t].on

\* C37: while the network interface is down the connectivity state is not
\* Online (once the startup check has answered).
C37_DownInterfaceNeverOnline ==
    (~navOnLine /\ ~StartupPending) => ~onlineState

\* the ids given out after the drain in slot t read its snapshot
EnqueuedSince(t) == tasks[t].qid..(nextId - 1)

\* C38: a mutation enqueued while a drain is in progress is not in that
\* drain's snapshot and is still in the queue while the drain runs and when
\* it completes.
C38_EnqueuedDuringDrainStays ==
    \A t \in Tasks :
        (IsDrain(t) /\ tasks[t].pc \in {"replay", "done"}
            /\ tasks[t].snap # << >>)
        => EnqueuedSince(t) \subseteq Ids(queue)

\* the keys present in the store, on either substrate
StoredKeys == DOMAIN idbCache \cup DOMAIN lsCache
\* a finished clearAuthCache()
ClearDone(t) == tasks[t].kind = "clearAuth" /\ tasks[t].pc = "done"

\* C32: when clearAuthCache() has completed, neither auth_user_data nor
\* auth_token_cache is present in the store, so that no identity is left
\* for isAuthenticatedOffline() to find.
C32_ClearErasesBoth ==
    \A t \in Tasks :
        ClearDone(t) =>
            /\ AuthCacheKey \notin StoredKeys
            /\ AuthTokenKey \notin StoredKeys
            /\ CachedIdentity = Null

\* the entry of the store at a key it holds
Stored(key) ==
    IF key \in DOMAIN idbCache THEN idbCache[key].value
    ELSE lsCache[key].value

\* C33: the stored user and the stored credential come from the same
\* cacheUserData call: whenever auth_token_cache is present, auth_user_data
\* is present and holds the user of that token's session.
C33_IdentityReplacedWholesale ==
    AuthTokenKey \in StoredKeys =>
        /\ AuthCacheKey \in StoredKeys
        /\ Stored(AuthTokenKey) = SessionToken(Stored(AuthCacheKey).email)

\* a well-formed credential whose claims carry no exp
NeverExpires(token) ==
    token.present /\ ClaimsDecode(token) /\ token.parts[2].exp = NoExp

Holding(key, value) == get(key, "ok").val = value
\* a navigation whose fetchUser() gave a user has finished
FetchedUser(t) == GuardDone(t) /\ tasks[t].got

\* C31: when a navigation whose user fetch succeeded finishes, the store
\* holds the fetched identity and the session credential, whether or not
\* connectivity changed during the fetch.
C31_FetchedIdentityCached ==
    [][\A t \in Tasks :
          (~FetchedUser(t) /\ FetchedUser(t)') =>
              /\ Holding(AuthCacheKey, tasks[t].storeUser)'
              /\ Holding(AuthTokenKey, tasks[t].token)']_vars

\* the guard of this navigation is at this await
GuardAt(t, pc) == tasks[t].kind = "guard" /\ tasks[t].pc = pc

UserRole(t) ==
    IF tasks[t].storeUser = Null THEN NoRole ELSE tasks[t].storeUser.role

\* C36: the guard allows a navigation to a page whose meta declares
\* requiredRole or roles only when the role of the user equals requiredRole
\* and is in roles, on every path, the offline and cached-identity
\* branches included.
C36_RoleAuthorisedOnEveryPath ==
    \A t \in Tasks :
        (GuardDone(t) /\ tasks[t].ret = "allowed") =>
            /\ RequiredRole(tasks[t].path) # NoRole =>
                    UserRole(t) = RequiredRole(tasks[t].path)
            /\ AllowedRoles(tasks[t].path) # {} =>
                    UserRole(t) \in AllowedRoles(tasks[t].path)

====
